---- MODULE Spec2Model ----
(***************************************************************************)
(* RandomGoalHumanoidEnv (sac/envs/random_goal_humanoid_env.py): the       *)
(* goal-conditioned reward / termination / observation layer on top of a   *)
(* physics simulator.                                                      *)
(*                                                                         *)
(* Numbers.  Lengths (positions, distances, radii) are integers in one     *)
(* length unit; qpos[2] is an integer number of tenths (0.2 is 2, 0.8 is   *)
(* 8); rewards, weights and costs are integers in one reward unit.  The    *)
(* input sets are chosen so that every product, halving and division the   *)
(* code performs is exact on them; np.linalg.norm is the square root       *)
(* rounded to the length unit (floating point rounds it to the nearest     *)
(* double).                                                                *)
(*                                                                         *)
(* Python objects.  An object's attributes and a frame's local variables   *)
(* are functions from names to values: a name is in the DOMAIN exactly     *)
(* when it has been assigned, so that reading an unassigned name           *)
(* (AttributeError, UnboundLocalError) is visible in the model.            *)
(***************************************************************************)
EXTENDS Integers, Sequences, FiniteSets, TLC

VARIABLES
    status,     \* "new" (not constructed), "ready" (constructed), "failed"
    self,       \* the attributes of the environment instance
    sim,        \* the physics collaborator: MujocoEnv state behind self.model
    init_args,  \* the constructor's arguments, kept by Serializable.quick_init
    ret         \* what the last call (constructor, reset, step) gave its caller

vars == <<status, self, init_args, sim, ret>>

\* ------------------------------------------------------------------ bounds

\* step calls per environment instance
MaxSteps == 2

\* ------------------------------------------------------- program constants

\* is_healthy = 0.2 < qpos[2] < 0.8, in tenths
HealthyLow == 2
HealthyHigh == 8

\* np.clip(cfrc_ext, -1, 1)
ClipLow == -1
ClipHigh == 1

\* line 13 with a third reward type admitted
REWARD_TYPES_WithLinear == {"dense", "sparse", "linear"}

\* line 13
REWARD_TYPES == {"dense", "sparse"}

\* ------------------------------------------------------------------ inputs

None == <<>>

\* cost coefficients a caller may pass: vel_deviation, ctrl, impact
CostCoeffs == {<<0, 0, 0>>, <<2, 0, 0>>, <<2, 2, 2>>}

\* constructor arguments a caller may pass
CtorArgs ==
    { [ reward_type              |-> t,
        terminate_at_goal        |-> g,
        goal_reward_weight       |-> w,
        goal_radius              |-> r,
        goal_distance            |-> 5,
        goal_angle_range         |-> <<0, 1>>,
        vel_deviation_cost_coeff |-> c[1],
        alive_bonus              |-> 3,
        ctrl_cost_coeff          |-> c[2],
        impact_cost_coeff        |-> c[3] ] :
      t \in {"dense", "sparse", "linear"}, g \in BOOLEAN, w \in {-1, 2},
      r \in {-1, 5}, c \in CostCoeffs }

\* goal positions a caller may pass to reset
GoalInputs == {<<3, 4>>, <<0, 0>>}

\* actions a caller may pass to step (one actuator)
Actions == {<<0>>, <<2>>}

\* action_bounds of the physics model: (lb, ub)
ActionBounds == <<(<<-2>>), (<<2>>)>>

\* contact forces and centre-of-mass velocity the physics may report
Dynamics ==
    { [cfrc_ext |-> <<0, 0>>, comvel |-> <<1, 0, 0>>],
      [cfrc_ext |-> <<3, -1>>, comvel |-> <<1, 0, 2>>] }

\* states the physics may be in after forward_dynamics
PostStates ==
    { [ qpos_z |-> z, torso_xy |-> xy, cfrc_ext |-> d.cfrc_ext,
        comvel |-> d.comvel ] :
      z \in {HealthyLow, 5, HealthyHigh},
      xy \in {<<1, 0>>, <<0, -1>>},
      d \in Dynamics }

\* the state the physics reset puts the body in
InitState ==
    [ qpos_z |-> 5, torso_xy |-> <<0, 0>>, cfrc_ext |-> <<0, 0>>,
      comvel |-> <<0, 0, 0>> ]

\* ----------------------------------------------------------------- numbers

Square(x) == x * x

\* np.sum over a vector
RECURSIVE Sum(_)
Sum(v) == IF v = <<>> THEN 0 ELSE Head(v) + Sum(Tail(v))

\* 0.5 * x (exact on the even numbers the inputs produce)
Half(x) == x \div 2

\* the square root, rounded down to the unit
Isqrt(n) == CHOOSE r \in 0..n : r * r <= n /\ n < (r + 1) * (r + 1)

\* np.linalg.norm(a - b) for planar points
Norm(a, b) == Isqrt(Square(a[1] - b[1]) + Square(a[2] - b[2]))

\* np.clip(x, lo, hi)
Clip(x, lo, hi) == IF x < lo THEN lo ELSE IF x > hi THEN hi ELSE x

\* int(b) for a boolean
BoolToInt(b) == IF b THEN 1 ELSE 0

\* v[k:] for a 0-based index k
From(v, k) == SubSeq(v, k + 1, Len(v))

\* ------------------------------------------------------------ goal sampler

\* Angles are quarter turns: cos and sin are exact on them.
Cos4(a) == CASE a % 4 = 0 -> 1 [] a % 4 = 2 -> -1 [] OTHER -> 0
Sin4(a) == CASE a % 4 = 1 -> 1 [] a % 4 = 3 -> -1 [] OTHER -> 0

\* helpers.random_point_on_circle: the points it may return
random_point_on_circle(angle_range, radius) ==
    { <<Cos4(a) * radius, Sin4(a) * radius>> :
        a \in angle_range[1] .. angle_range[2] }

\* ------------------------------------------------------------------- reset

\* reset that ignores the goal_position it is given
ResetGoal_AlwaysSampled(goal_position, s) ==
    random_point_on_circle(s.goal_angle_range, s.goal_distance)

\* reset, lines 58-63: the goal positions it may store
ResetGoal(goal_position, s) ==
    IF goal_position = None
    THEN random_point_on_circle(s.goal_angle_range, s.goal_distance)
    ELSE {goal_position}

\* reset, lines 59-61: the arguments of the sampler call it makes, if any
ResetSampled(goal_position, s) ==
    IF goal_position = None
    THEN <<s.goal_angle_range, s.goal_distance>>
    ELSE None

\* get_current_obs: proprioceptive observation, then the goal position
get_current_obs(s, data) ==
    <<data.qpos_z>> \o data.comvel \o s.goal_position

\* MujocoEnv.reset, reached by super().reset()
SimReset(m) == [m EXCEPT !.data = InitState]

\* --------------------------------------------------------------- step terms

\* line 85 with <= for <
GoalReached_Inclusive(goal_distance, goal_radius) == goal_distance <= goal_radius

\* line 85
GoalReached(goal_distance, goal_radius) == goal_distance < goal_radius

\* line 88 without the minus sign
DenseGoalReward_SignLost(goal_distance, goal_reward_weight) ==
    goal_distance * goal_reward_weight

\* line 88
DenseGoalReward(goal_distance, goal_reward_weight) ==
    (-goal_distance) * goal_reward_weight

\* line 90
SparseGoalReward(goal_reached, goal_reward_weight) ==
    BoolToInt(goal_reached) * goal_reward_weight

\* lines 87-90: the binding of goal_reward, none when no branch is taken
GoalRewardLocals(s, goal_reached) ==
    IF s.reward_type = "dense"
    THEN [goal_reward |-> DenseGoalReward(s.goal_distance, s.goal_reward_weight)]
    ELSE IF s.reward_type = "sparse"
    THEN [goal_reward |-> SparseGoalReward(goal_reached, s.goal_reward_weight)]
    ELSE <<>>

\* lines 95-101
CtrlCostLocals(s, action) ==
    IF s.ctrl_cost_coeff > 0
    THEN LET lb == ActionBounds[1]
             ub == ActionBounds[2]
             scaling == [i \in DOMAIN ub |-> Half(ub[i] - lb[i])]
         IN  [ctrl_cost |-> Half(s.ctrl_cost_coeff)
                  * Sum([i \in DOMAIN action |-> Square(action[i] \div scaling[i])])]
    ELSE [ctrl_cost |-> 0]

\* lines 103-108
ImpactCostLocals(s, data) ==
    IF s.impact_cost_coeff > 0
    THEN [impact_cost |-> Half(s.impact_cost_coeff)
              * Sum([i \in DOMAIN data.cfrc_ext |->
                       Square(Clip(data.cfrc_ext[i], ClipLow, ClipHigh))])]
    ELSE [impact_cost |-> 0]

\* lines 110-113: the if has no else, the name stays unbound when skipped
VelDeviationCostLocals(s, data) ==
    IF s.vel_deviation_cost_coeff > 0
    THEN [vel_deviation_cost |-> Half(s.vel_deviation_cost_coeff)
              * Sum([i \in DOMAIN From(data.comvel, 2) |->
                       Square(From(data.comvel, 2)[i])])]
    ELSE <<>>

\* the local variables of step when line 116 is reached
StepLocals(s, action, data) ==
    LET goal_reached == GoalReached(s.goal_distance, s.goal_radius)
    IN  [goal_reached |-> goal_reached]
        @@ GoalRewardLocals(s, goal_reached)
        @@ CtrlCostLocals(s, action)
        @@ ImpactCostLocals(s, data)
        @@ VelDeviationCostLocals(s, data)

\* the names lines 116-117 read
RewardReads == {"goal_reward", "ctrl_cost", "impact_cost", "vel_deviation_cost"}

\* lines 116-117
Reward(s, f) ==
    f.goal_reward + s.alive_bonus - f.ctrl_cost - f.impact_cost
        - f.vel_deviation_cost

\* line 119 with 0.2 <= for 0.2 <
IsHealthy_LowInclusive(qpos_z) == HealthyLow <= qpos_z /\ qpos_z < HealthyHigh

\* line 119
IsHealthy(qpos_z) == HealthyLow < qpos_z /\ qpos_z < HealthyHigh

\* line 120 without terminate_at_goal
Done_AnyGoal(is_healthy, terminate_at_goal, goal_reached) ==
    ~is_healthy \/ goal_reached

\* line 120
Done(is_healthy, terminate_at_goal, goal_reached) ==
    ~is_healthy \/ (terminate_at_goal /\ goal_reached)

\* lines 122-124: the value step returns
StepValue(s, f, data) ==
    [ observation |-> get_current_obs(s, data),
      reward      |-> Reward(s, f),
      done        |-> Done(IsHealthy(data.qpos_z), s.terminate_at_goal,
                           f.goal_reached),
      info        |-> [goal_position |-> s.goal_position] ]

\* What a call gives its caller (value or exception), with what it was
\* called with (arg), the local variables it had at its end (frame) and the
\* arguments of the goal sampler call it made (sampled, None when it made none).
Returned(call, arg, f, sampled, value) ==
    [call |-> call, kind |-> "return", exc |-> "", arg |-> arg,
     frame |-> f, sampled |-> sampled, value |-> value]

Raised(call, exc, arg, f) ==
    [call |-> call, kind |-> "raise", exc |-> exc, arg |-> arg,
     frame |-> f, sampled |-> None, value |-> None]

\* ----------------------------------------------------------------- actions

Init ==
    /\ status = "new"
    /\ self = <<>>
    /\ init_args = <<>>
    /\ sim = [inited |-> FALSE, steps |-> 0, data |-> InitState]
    /\ ret = Returned("none", None, <<>>, None, None)

\* __init__, lines 39-55.  MujocoEnv.__init__ is outside the repository: it
\* sets up the physics and may call self.reset() while doing so.
Construct ==
    /\ status = "new"
    /\ \E a \in CtorArgs, base_resets \in BOOLEAN :
        IF a.reward_type \notin REWARD_TYPES
        THEN /\ status' = "failed"
             /\ ret' = Raised("init", "AssertionError", a, <<>>)
             /\ UNCHANGED <<self, init_args, sim>>
        ELSE /\ status' = "ready"
             /\ init_args' = a
             /\ sim' = [sim EXCEPT !.inited = TRUE]
             /\ IF base_resets
                THEN /\ \E g \in ResetGoal(None, a) :
                          self' = a @@ [goal_position |-> g]
                     /\ ret' = Returned("init", a, <<>>, ResetSampled(None, a), None)
                ELSE /\ self' = a
                     /\ ret' = Returned("init", a, <<>>, None, None)

\* reset, lines 57-65
Reset ==
    /\ status = "ready"
    /\ \E goal_position \in GoalInputs \cup {None} :
        /\ \E g \in ResetGoal(goal_position, self) :
              self' = [goal_position |-> g] @@ self
        /\ sim' = SimReset(sim)
        /\ ret' = Returned("reset", goal_position, <<>>,
                           ResetSampled(goal_position, self),
                           get_current_obs(self', sim'.data))
    /\ UNCHANGED <<status, init_args>>

\* step, lines 79-124
Step ==
    /\ status = "ready"
    /\ sim.steps < MaxSteps
    /\ \E action \in Actions, post \in PostStates :
        \* line 80: forward_dynamics(action)
        /\ sim' = [sim EXCEPT !.steps = @ + 1, !.data = post]
        /\ IF "goal_position" \notin DOMAIN self
           THEN \* line 83 reads self.goal_position
                /\ ret' = Raised("step", "AttributeError", action, <<>>)
                /\ self' = self
           ELSE LET s == [self EXCEPT
                            !.goal_distance = Norm(post.torso_xy, self.goal_position)]
                    f == StepLocals(s, action, post)
                IN  /\ self' = s
                    /\ ret' = IF RewardReads \subseteq DOMAIN f
                              THEN Returned("step", action, f, None,
                                            StepValue(s, f, post))
                              ELSE Raised("step", "UnboundLocalError", action, f)
    /\ UNCHANGED <<status, init_args>>

Next == Construct \/ Reset \/ Step

Spec == Init /\ [][Next]_vars

\* ------------------------------------------------------------------ claims

StepCalled == ret.call = "step"

StepReturned == ret.call = "step" /\ ret.kind = "return"

GoalSet == "goal_position" \in DOMAIN self

InBand(qpos_z) == HealthyLow < qpos_z /\ qpos_z < HealthyHigh

\* C1: every goal sampler call made by a reset without goal_position (the first
\* and every later one) is given the angle range and the goal_distance the
\* environment was constructed with.
C1_SamplerGetsConfiguredDistance ==
    ret.sampled # None =>
        ret.sampled = <<init_args.goal_angle_range, init_args.goal_distance>>

\* C2: with the three cost coefficients 0, every step (taken with a goal set)
\* returns, and its reward is goal_reward + alive_bonus.
C2_ZeroCoeffsReward ==
    ( /\ StepCalled
      /\ GoalSet
      /\ self.ctrl_cost_coeff = 0
      /\ self.impact_cost_coeff = 0
      /\ self.vel_deviation_cost_coeff = 0 )
    => ( /\ ret.kind = "return"
         /\ ret.value.reward = ret.frame.goal_reward + self.alive_bonus )

\* the episode is not running: no reset has stored a goal yet, or the last
\* call was a step that returned done = True
Stale ==
    /\ status = "ready"
    /\ \/ ~GoalSet
       \/ (StepReturned /\ ret.value.done)

\* C3: a step called while the episode is not running is rejected: it raises,
\* and neither the physics nor the attributes of the environment change.
C3_StaleStepRejected ==
    [][ (Stale /\ ret'.call = "step")
        => (ret'.kind = "raise" /\ sim' = sim /\ self' = self) ]_vars

\* C4: a step that returns with qpos_z <= 0.2 or qpos_z >= 0.8 returns
\* done = True, whatever goal_reached, terminate_at_goal and reward_type are.
C4_UnhealthyIsDone ==
    ( StepReturned
      /\ (sim.data.qpos_z <= HealthyLow \/ sim.data.qpos_z >= HealthyHigh) )
    => ret.value.done = TRUE

C4_Witness ==
    /\ StepReturned
    /\ sim.data.qpos_z = HealthyLow
    /\ ~ret.frame.goal_reached
    /\ ret.value.done

\* C5: with terminate_at_goal = False, a step returns done = True exactly when
\* the pose is outside the band 0.2 < qpos_z < 0.8.
C5_DoneOnlyByHealth ==
    (StepReturned /\ ~self.terminate_at_goal)
    => (ret.value.done <=> ~InBand(sim.data.qpos_z))

C5_Witness ==
    /\ StepReturned
    /\ ~self.terminate_at_goal
    /\ ret.frame.goal_reached
    /\ InBand(sim.data.qpos_z)
    /\ ~ret.value.done

\* C6: in sparse mode the goal term of a step is goal_reward_weight when the
\* recomputed goal distance is strictly below goal_radius, and 0 otherwise.
C6_SparseGoalTerm ==
    (StepCalled /\ GoalSet /\ self.reward_type = "sparse")
    => /\ self.goal_distance = Norm(sim.data.torso_xy, self.goal_position)
       /\ ret.frame.goal_reward =
              IF self.goal_distance < self.goal_radius
              THEN self.goal_reward_weight
              ELSE 0

C6_Witness ==
    /\ StepCalled
    /\ GoalSet
    /\ self.reward_type = "sparse"
    /\ self.goal_reward_weight # 0
    /\ self.goal_distance = self.goal_radius
    /\ ret.frame.goal_reward = 0

\* two consecutive steps of one environment in dense mode, both returning,
\* with the same action, contact forces and velocity, the second one at a
\* goal distance at least as large as the first
FartherSameStep ==
    /\ StepReturned
    /\ ret'.call = "step" /\ ret'.kind = "return"
    /\ sim'.steps = sim.steps + 1
    /\ self.reward_type = "dense"
    /\ ret'.arg = ret.arg
    /\ sim'.data.cfrc_ext = sim.data.cfrc_ext
    /\ sim'.data.comvel = sim.data.comvel
    /\ self'.goal_distance >= self.goal_distance

\* C7: the dense reward is non-increasing in the goal distance: of two steps
\* that differ only in it, the farther one has the smaller or equal reward.
C7_DenseMonotone ==
    [][ FartherSameStep => ret'.value.reward <= ret.value.reward ]_vars

\* C7, amended: the same, for a goal_reward_weight that is not negative.
C7_DenseMonotoneNonNegativeWeight ==
    [][ (FartherSameStep /\ self.goal_reward_weight >= 0)
        => ret'.value.reward <= ret.value.reward ]_vars

C7_Witness ==
    /\ StepReturned
    /\ self.reward_type = "dense"
    /\ self.goal_reward_weight > 0
    /\ sim.steps = 2
    /\ self.goal_distance > 0
    /\ ret.value.reward < self.alive_bonus

\* C8: a step that returns right after reset(goal_position = P) carries
\* goal_position = P in its info.
C8_GoalRoundTrip ==
    [][ ( /\ ret.call = "reset"
          /\ ret.arg # None
          /\ ret'.call = "step"
          /\ ret'.kind = "return" )
        => ret'.value.info.goal_position = ret.arg ]_vars

C8_Witness ==
    /\ StepReturned
    /\ sim.steps = 1
    /\ ret.value.info.goal_position = <<3, 4>>

\* C9: no constructed environment has a negative goal_radius.
C9_NegativeRadiusRejected ==
    status = "ready" => self.goal_radius >= 0

\* C10: construction with a reward_type other than dense or sparse fails with
\* no attribute stored and the physics not initialised; a constructed
\* environment has reward_type dense or sparse, and every step that gets to
\* the goal term binds it.
C10_RewardTypeValidated ==
    /\ status = "ready" => self.reward_type \in {"dense", "sparse"}
    /\ (ret.call = "init" /\ ret.arg.reward_type \notin {"dense", "sparse"})
           => status = "failed"
    /\ status = "failed" => (DOMAIN self = {} /\ ~sim.inited)
    /\ (StepCalled /\ GoalSet) => "goal_reward" \in DOMAIN ret.frame

C10_Witness ==
    /\ status = "failed"
    /\ ret.exc = "AssertionError"
    /\ ret.arg.reward_type = "linear"

====
